---- MODULE Spec2Model ----
(***************************************************************************)
(* A model of src/deskew.py, the command-line driver that loads the        *)
(* Leptonica library, reads an image, deskews it and writes the result.    *)
(* The script targets Python 2 (line 1); the native functions are modelled *)
(* by what the wrappers' docstrings and the _PIX structure say about them. *)
(***************************************************************************)
EXTENDS Integers, Sequences, FiniteSets, TLC

\* ------------------------------------------------------------------ bounds
MaxArgs == 3            \* longest command line (tokens after the program)
MaxRuns == 2            \* invocations of the script recorded in the log

\* --------------------------------------------------------------- constants
EXIT_OK == 0
EXIT_INPUT == 2
EXIT_USAGE == 2
EXIT_DEPENDENCY == 3
EXIT_UNCAUGHT == 1
ExitEncodeAsInput == EXIT_INPUT
EXIT_ENCODE == 5
DPI_CONST == 300
DPI_THRESHOLD == 150
RUNNING == -1           \* exitCode while the process has not ended

\* Optional values: Python's None is the empty set, a value x is {x}.
None == {}
Some(x) == {x}
Val(o) == CHOOSE v \in o : TRUE

NULL == 0
Handles == 1..2
Flags == {"-r", "--dpi"}
Paths == {"a.png", "b.png"}
Tokens == Flags \cup Paths
LibName == "liblept.so.5"
FileStates == {"missing", "corrupt", "image"}
NativeResults == {0, 1}

ArgvOfLen(n) == [1..n -> Tokens]
Argvs == UNION {ArgvOfLen(n) : n \in 0..MaxArgs}

VARIABLES pc, argv, lept_lib, lept, parsed, args, pix_source, pix_deskewed,
          reduction_factor, result, raised, heap, freed, doubleFree,
          calls, stderr_out, written, exitCode, cause, got, destroyed,
          log, runs

vars == <<pc, argv, lept_lib, lept, parsed, args, pix_source, pix_deskewed,
          reduction_factor, result, raised, heap, freed, doubleFree,
          calls, stderr_out, written, exitCode, cause, got, destroyed,
          log, runs>>

\* ------------------------------------------------------- pure definitions
NoArgs == [dpi |-> None, infile |-> "", outfile |-> ""]
NoError == <<>>
UNSET == -1

\* "fmt % arg": every %s part of the template is replaced by the argument.
Format(fmt, arg) == [i \in 1..Len(fmt) |-> IF fmt[i] = "%s" THEN arg ELSE fmt[i]]
\* stderr(*objs) prints the objects one after the other on one line.
Names(msg, path) == \E i \in 1..Len(msg) : msg[i] = path

IsFlag(t) == t \in Flags
Positionals(a) == SelectSeq(a, LAMBDA t : ~IsFlag(t))
HasFlag(a) == \E i \in 1..Len(a) : IsFlag(a[i])
\* argparse: two positionals are required, the flag stores the constant 300.
Accepted(a) == Len(Positionals(a)) = 2
ParsedArgs(a) == [dpi |-> IF HasFlag(a) THEN Some(DPI_CONST) ELSE None,
                  infile |-> Positionals(a)[1],
                  outfile |-> Positionals(a)[2]]

\* Python 2 orders any two objects; None sorts before every number.
OrderableInts(a) == a # None
Orderable(a) == TRUE
Py2Less(a, n) == IF a = None THEN TRUE ELSE Val(a) < n
ReductionFactor(dpi) == IF Py2Less(dpi, DPI_THRESHOLD) THEN 1 ELSE 0

ReadFailedNever(pix) == FALSE
ReadFailed(pix) == pix = NULL

WriteFailedNegative(res) == res < 0
WriteFailed(res) == res # 0

ProbeFailedNever(lib) == FALSE
ProbeFailed(lib) == lib = None

\* The heap of native Pix structures: the refcount field of each handle.
Fresh(h) == CHOOSE x \in Handles : h[x] = 0 /\ x \notin freed
             /\ \A y \in Handles : (h[y] = 0 /\ y \notin freed) => x <= y
CloneRefNoCount(h, p) == h
CloneRef(h, p) == [h EXCEPT ![p] = @ + 1]
DropRef(h, p) == [h EXCEPT ![p] = @ - 1]

Call(fn, path, rf) == [fn |-> fn, path |-> path, rf |-> rf]
Called(fn) == \E i \in 1..Len(calls) : calls[i].fn = fn

Exited == exitCode # RUNNING

Exit(code, kind) ==
    /\ exitCode' = code
    /\ pc' = "exited"
    /\ log' = log \cup {[kind |-> kind, code |-> code]}

\* lept.pixDestroy(byref(pix)): drops one reference of the structure the
\* pointer names, frees it when the count reaches zero, nulls the pointer.
PixDestroyHeap(p) ==
    IF p = NULL
      THEN UNCHANGED <<heap, freed, doubleFree>>
      ELSE IF heap[p] = 0
        THEN /\ doubleFree' = TRUE
             /\ UNCHANGED <<heap, freed>>
        ELSE /\ heap' = DropRef(heap, p)
             /\ freed' = IF heap[p] = 1 THEN freed \cup {p} ELSE freed
             /\ UNCHANGED doubleFree

\* ------------------------------------------------------------------- state
Init ==
    /\ pc = "find"
    /\ argv \in Argvs
    /\ lept_lib = None
    /\ lept = FALSE
    /\ parsed = FALSE
    /\ args = NoArgs
    /\ pix_source = NULL
    /\ pix_deskewed = NULL
    /\ reduction_factor = UNSET
    /\ result = UNSET
    /\ raised = NoError
    /\ heap = [h \in Handles |-> 0]
    /\ freed = {}
    /\ doubleFree = FALSE
    /\ calls = <<>>
    /\ stderr_out = <<>>
    /\ written = {}
    /\ exitCode = RUNNING
    /\ cause = "none"
    /\ got = {}
    /\ destroyed = [v \in {"pix_source", "pix_deskewed"} |-> 0]
    /\ log = {}
    /\ runs = 1

\* ----------------------------------------------------------------- actions
\* lines 23-27: find_library('lept'); exit 3 when it is not found.
FindLibrary ==
    /\ pc = "find"
    /\ \E found \in {None, Some(LibName)} :
         /\ lept_lib' = found
         /\ IF ProbeFailed(found)
              THEN /\ stderr_out' = Append(stderr_out,
                        <<"deskew.py: Could not find the Leptonica library">>)
                   /\ cause' = "notfound"
                   /\ Exit(EXIT_DEPENDENCY, "DependencyError")
              ELSE /\ pc' = "load"
                   /\ UNCHANGED <<stderr_out, cause, exitCode, log>>
    /\ UNCHANGED <<argv, lept, parsed, args, pix_source, pix_deskewed,
                   reduction_factor, result, raised, heap, freed, doubleFree,
                   calls, written, got, destroyed, runs>>

\* lines 28-32: cdll.LoadLibrary(lept_lib); exit 3 when loading raises.
\* The message is passed to stderr() unformatted, followed by the path.
LoadLibrary ==
    /\ pc = "load"
    /\ \E ok \in BOOLEAN :
         IF ok
           THEN /\ lept' = TRUE
                /\ pc' = "parse"
                /\ UNCHANGED <<stderr_out, cause, exitCode, log>>
           ELSE /\ stderr_out' = Append(stderr_out,
                     <<"deskew.py: Could not load the Leptonica library from ",
                       "%s">> \o (IF lept_lib = None THEN <<"None">>
                                  ELSE <<Val(lept_lib)>>))
                /\ cause' = "loadfail"
                /\ Exit(EXIT_DEPENDENCY, "DependencyError")
                /\ UNCHANGED lept
    /\ UNCHANGED <<argv, lept_lib, parsed, args, pix_source, pix_deskewed,
                   reduction_factor, result, raised, heap, freed, doubleFree,
                   calls, written, got, destroyed, runs>>

\* lines 134-140: build the parser and parse the command line; argparse
\* prints the usage and exits with 2 on a command line it rejects.
ParseArgs ==
    /\ pc = "parse"
    /\ parsed' = TRUE
    /\ IF Accepted(argv)
         THEN /\ args' = ParsedArgs(argv)
              /\ pc' = "read"
              /\ UNCHANGED <<stderr_out, cause, exitCode, log>>
         ELSE /\ stderr_out' = Append(stderr_out, <<"usage: deskew.py">>)
              /\ cause' = "usage"
              /\ Exit(EXIT_USAGE, "UsageError")
              /\ UNCHANGED args
    /\ UNCHANGED <<argv, lept_lib, lept, pix_source, pix_deskewed,
                   reduction_factor, result, raised, heap, freed, doubleFree,
                   calls, written, got, destroyed, runs>>

\* lines 142-145: pixRead(args.infile); a null handle ends the run with 2.
ReadInput ==
    /\ pc = "read"
    /\ \E content \in FileStates :
         LET h == Fresh(heap)
             pix == IF content = "image" THEN h ELSE NULL
         IN /\ calls' = Append(calls, Call("pixRead", args.infile, UNSET))
            /\ pix_source' = pix
            /\ heap' = IF pix = NULL THEN heap ELSE [heap EXCEPT ![h] = 1]
            /\ got' = IF pix = NULL THEN got ELSE got \cup {"pix_source"}
            /\ cause' = IF content = "image" THEN cause ELSE content
            /\ IF ReadFailed(pix)
                 THEN /\ stderr_out' = Append(stderr_out,
                           Format(<<"Failed to open file: ", "%s">>, args.infile))
                      /\ Exit(EXIT_INPUT, IF content = "missing"
                                            THEN "InputError" ELSE "DecodeError")
                 ELSE /\ pc' = "policy"
                      /\ UNCHANGED <<stderr_out, exitCode, log>>
    /\ UNCHANGED <<argv, lept_lib, lept, parsed, args, pix_deskewed,
                   reduction_factor, result, raised, freed, doubleFree,
                   written, destroyed, runs>>

\* lines 147-150: choose the reduction factor from args.dpi.
ReductionPolicy ==
    /\ pc = "policy"
    /\ IF Orderable(args.dpi)
         THEN /\ reduction_factor' = ReductionFactor(args.dpi)
              /\ pc' = "deskew"
              /\ UNCHANGED <<stderr_out, exitCode, log>>
         ELSE /\ stderr_out' = Append(stderr_out, <<"TypeError">>)
              /\ Exit(EXIT_UNCAUGHT, "Uncaught")
              /\ UNCHANGED reduction_factor
    /\ UNCHANGED <<argv, lept_lib, lept, parsed, args, pix_source, pix_deskewed,
                   result, raised, heap, freed, doubleFree, calls, written,
                   cause, got, destroyed, runs>>

\* Deskew with a check the driver does not have: a clone is taken for a
\* failed estimation and ends the run.
DeskewChecked ==
    /\ pc = "deskew"
    /\ calls' = Append(calls, Call("pixDeskew", "", reduction_factor))
    /\ pix_source # NULL
    /\ got' = got \cup {"pix_deskewed"}
    /\ \E outcome \in {"deskewed", "clone"} :
         IF outcome = "deskewed"
           THEN LET h == Fresh(heap)
                IN /\ pix_deskewed' = h
                   /\ heap' = [heap EXCEPT ![h] = 1]
                   /\ pc' = "write"
                   /\ UNCHANGED <<exitCode, log>>
           ELSE /\ pix_deskewed' = pix_source
                /\ heap' = CloneRef(heap, pix_source)
                /\ Exit(EXIT_INPUT, "DecodeError")
    /\ UNCHANGED <<argv, lept_lib, lept, parsed, args, pix_source,
                   reduction_factor, result, raised, freed, doubleFree,
                   stderr_out, written, cause, destroyed, runs>>

\* line 151 and lines 97-104: pixDeskew returns the deskewed pix object
\* (a new structure) or a clone of the original (the same structure with
\* one more reference); the result is not examined by the driver.
Deskew ==
    /\ pc = "deskew"
    /\ calls' = Append(calls, Call("pixDeskew", "", reduction_factor))
    /\ IF pix_source = NULL
         THEN /\ pix_deskewed' = NULL
              /\ UNCHANGED <<heap, got>>
         ELSE /\ got' = got \cup {"pix_deskewed"}
              /\ \E outcome \in {"deskewed", "clone"} :
                   IF outcome = "deskewed"
                     THEN LET h == Fresh(heap)
                          IN /\ pix_deskewed' = h
                             /\ heap' = [heap EXCEPT ![h] = 1]
                     ELSE /\ pix_deskewed' = pix_source
                          /\ heap' = CloneRef(heap, pix_source)
    /\ pc' = "write"
    /\ UNCHANGED <<argv, lept_lib, lept, parsed, args, pix_source,
                   reduction_factor, result, raised, freed, doubleFree,
                   stderr_out, written, exitCode, cause, destroyed, log, runs>>

\* lines 153-154 and 107-120: pixWriteImpliedFormat raises LeptonicaError
\* when the native call returns a non-zero result.
WriteOutput ==
    /\ pc = "write"
    /\ \E res \in (IF pix_deskewed = NULL THEN {1} ELSE NativeResults) :
         /\ result' = res
         /\ calls' = Append(calls,
                        Call("pixWriteImpliedFormat", args.outfile, UNSET))
         /\ written' = IF res = 0 THEN written \cup {args.outfile} ELSE written
         /\ cause' = IF res = 0 THEN cause ELSE "encode"
         /\ IF WriteFailed(res)
              THEN /\ raised' = Format(<<"pixWriteImpliedFormat('", "%s",
                                         "', ...) returned error">>, args.outfile)
                   /\ pc' = "except"
              ELSE /\ pc' = "destroy_source"
                   /\ UNCHANGED raised
    /\ UNCHANGED <<argv, lept_lib, lept, parsed, args, pix_source, pix_deskewed,
                   reduction_factor, heap, freed, doubleFree, stderr_out,
                   exitCode, got, destroyed, log, runs>>

\* lines 155-157: except LeptonicaError: print it and exit with 5.
HandleLeptonicaError ==
    /\ pc = "except"
    /\ stderr_out' = Append(stderr_out, raised)
    /\ Exit(EXIT_ENCODE, "EncodeError")
    /\ UNCHANGED <<argv, lept_lib, lept, parsed, args, pix_source, pix_deskewed,
                   reduction_factor, result, raised, heap, freed, doubleFree,
                   calls, written, cause, got, destroyed, runs>>

\* line 158: pixDestroy(pix_source)
DestroySource ==
    /\ pc = "destroy_source"
    /\ PixDestroyHeap(pix_source)
    /\ pix_source' = NULL
    /\ destroyed' = [destroyed EXCEPT !["pix_source"] = @ + 1]
    /\ calls' = Append(calls, Call("pixDestroy", "", UNSET))
    /\ pc' = "destroy_deskewed"
    /\ UNCHANGED <<argv, lept_lib, lept, parsed, args, pix_deskewed,
                   reduction_factor, result, raised, stderr_out, written,
                   exitCode, cause, got, log, runs>>

\* line 159: pixDestroy(pix_deskewed)
DestroyDeskewed ==
    /\ pc = "destroy_deskewed"
    /\ PixDestroyHeap(pix_deskewed)
    /\ pix_deskewed' = NULL
    /\ destroyed' = [destroyed EXCEPT !["pix_deskewed"] = @ + 1]
    /\ calls' = Append(calls, Call("pixDestroy", "", UNSET))
    /\ pc' = "end"
    /\ UNCHANGED <<argv, lept_lib, lept, parsed, args, pix_source,
                   reduction_factor, result, raised, stderr_out, written,
                   exitCode, cause, got, log, runs>>

\* the end of the script: the interpreter exits with 0.
ScriptEnd ==
    /\ pc = "end"
    /\ Exit(EXIT_OK, "Success")
    /\ UNCHANGED <<argv, lept_lib, lept, parsed, args, pix_source, pix_deskewed,
                   reduction_factor, result, raised, heap, freed, doubleFree,
                   calls, stderr_out, written, cause, got, destroyed, runs>>

\* the script is invoked again: nothing but the observer's log of earlier
\* outcomes survives a process.
NewRun ==
    /\ pc = "exited"
    /\ runs < MaxRuns
    /\ runs' = runs + 1
    /\ pc' = "find"
    /\ argv' \in Argvs
    /\ lept_lib' = None
    /\ lept' = FALSE
    /\ parsed' = FALSE
    /\ args' = NoArgs
    /\ pix_source' = NULL
    /\ pix_deskewed' = NULL
    /\ reduction_factor' = UNSET
    /\ result' = UNSET
    /\ raised' = NoError
    /\ heap' = [h \in Handles |-> 0]
    /\ freed' = {}
    /\ doubleFree' = FALSE
    /\ calls' = <<>>
    /\ stderr_out' = <<>>
    /\ written' = {}
    /\ exitCode' = RUNNING
    /\ cause' = "none"
    /\ got' = {}
    /\ destroyed' = [v \in {"pix_source", "pix_deskewed"} |-> 0]
    /\ UNCHANGED log

Next ==
    \/ FindLibrary
    \/ LoadLibrary
    \/ ParseArgs
    \/ ReadInput
    \/ ReductionPolicy
    \/ Deskew
    \/ WriteOutput
    \/ HandleLeptonicaError
    \/ DestroySource
    \/ DestroyDeskewed
    \/ ScriptEnd
    \/ NewRun

Spec == Init /\ [][Next]_vars

TypeOK ==
    /\ exitCode \in {RUNNING, 0, 1, 2, 3, 5}
    /\ reduction_factor \in {UNSET, 0, 1}
    /\ pix_source \in Handles \cup {NULL}
    /\ pix_deskewed \in Handles \cup {NULL}
    /\ heap \in [Handles -> 0..2]

\* ------------------------------------------------------------------ claims
ReadOk == "pix_source" \in got
ReadFailedState == cause \in {"missing", "corrupt"}
LastErr == stderr_out[Len(stderr_out)]
DeskewCalls == {i \in 1..Len(calls) : calls[i].fn = "pixDeskew"}
Declared(dpi) == dpi # None

\* C1: in every run whose read succeeded, the reduction factor passed to
\* pixDeskew is 1 when the declared DPI is below 150 and 0 otherwise.
C1_FactorFollowsDeclaredDpi ==
    \A i \in DeskewCalls :
        ReadOk => calls[i].rf = (IF Declared(args.dpi)
                                      /\ Val(args.dpi) < DPI_THRESHOLD
                                   THEN 1 ELSE 0)

\* C2: a failed read ends the run with exit code 2, the diagnostic names the
\* input path, and neither pixDeskew nor pixWriteImpliedFormat is called, so
\* nothing is written.
C2_ReadFailureEndsRun ==
    ReadFailedState =>
        /\ exitCode = EXIT_INPUT
        /\ pix_source = NULL
        /\ stderr_out # <<>> /\ Names(LastErr, args.infile)
        /\ ~Called("pixDeskew")
        /\ ~Called("pixWriteImpliedFormat")
        /\ written = {}
C2_Witness ==
    /\ cause = "missing"
    /\ exitCode = EXIT_INPUT
    /\ Called("pixRead")
    /\ Names(LastErr, args.infile)

\* C3: a non-zero native result makes pixWriteImpliedFormat raise an error
\* whose message carries the output path and the run ends with 5, never 0;
\* a zero result raises nothing.
C3_EncoderFailureRaises ==
    /\ (result # UNSET /\ result # 0) =>
          /\ pc \in {"except", "exited"}
          /\ raised # NoError /\ Names(raised, args.outfile)
          /\ exitCode \in {RUNNING, EXIT_ENCODE}
          /\ Exited => (exitCode = EXIT_ENCODE /\ LastErr = raised)
    /\ result = 0 =>
          /\ raised = NoError
          /\ pc # "except"
          /\ exitCode \in {RUNNING, EXIT_OK}
C3_Witness ==
    /\ result = 1
    /\ exitCode = EXIT_ENCODE
    /\ Names(LastErr, args.outfile)

\* C4: when the process has ended, every handle obtained in the run has been
\* released by pixDestroy exactly once.
C4_ReleasedExactlyOnce ==
    Exited => \A v \in got : destroyed[v] = 1

\* C5: two runs that fail with different entries of the error taxonomy never
\* end with the same exit code.
Taxonomy == {"InputError", "DecodeError", "EncodeError", "DependencyError"}
C5_DistinctExitCodes ==
    \A r1, r2 \in log :
        (r1.kind \in Taxonomy /\ r2.kind \in Taxonomy /\ r1.kind # r2.kind)
            => r1.code # r2.code
\* C5 (amended): read failures (missing or undecodable input) share exit code
\* 2; read failure, write failure and dependency failure end with the three
\* distinct codes 2, 5 and 3.
FailureClass(kind) == IF kind \in {"InputError", "DecodeError"}
                        THEN "ReadFailure" ELSE kind
C5_DistinctExitCodesPerClass ==
    /\ \A r1, r2 \in log :
          (r1.kind \in Taxonomy /\ r2.kind \in Taxonomy
             /\ FailureClass(r1.kind) # FailureClass(r2.kind))
               => r1.code # r2.code
    /\ \A r \in log :
          /\ FailureClass(r.kind) = "ReadFailure" => r.code = 2
          /\ r.kind = "EncodeError" => r.code = 5
          /\ r.kind = "DependencyError" => r.code = 3
C5_Witness ==
    \E r1, r2 \in log : r1.kind = "InputError" /\ r2.kind = "EncodeError"

\* C6: a library that cannot be found or loaded ends the run with exit code
\* 3 before any argument is parsed or any file is read or written, and no run
\* ends with 0, 2 or 5 unless the library has been loaded.
C6_ProbeFirst ==
    /\ ((lept_lib = None /\ pc # "find") \/ cause = "loadfail") =>
          /\ exitCode = EXIT_DEPENDENCY
          /\ ~parsed /\ args = NoArgs
          /\ calls = <<>> /\ written = {}
    /\ exitCode \in {EXIT_OK, EXIT_INPUT, EXIT_ENCODE} => lept
    /\ (parsed \/ calls # <<>>) => lept
C6_Witness ==
    /\ exitCode = EXIT_DEPENDENCY
    /\ cause = "notfound"
    /\ ~parsed

\* C8: after a successful read the deskew step has no error outcome: the
\* driver always goes on to the write, and the run ends with 0 exactly when
\* the write succeeded.
C8_DeskewNeverFails ==
    /\ Called("pixDeskew") =>
          pc \in {"write", "except", "destroy_source", "destroy_deskewed",
                  "end", "exited"}
    /\ (Called("pixDeskew") /\ Exited) =>
          /\ Called("pixWriteImpliedFormat")
          /\ exitCode \in {EXIT_OK, EXIT_ENCODE}
          /\ exitCode = EXIT_OK <=> result = 0
    /\ (ReadOk /\ Exited) => Called("pixDeskew")
C8_Witness ==
    /\ ReadOk
    /\ Called("pixDeskew")
    /\ exitCode = EXIT_OK
    /\ result = 0

\* C9: pixDeskew leaves its input unchanged and returns a fresh handle that
\* is independent of the source.
C9_FreshIndependentHandle ==
    (pc = "write" /\ pix_source # NULL) =>
        /\ pix_deskewed # pix_source
        /\ heap[pix_source] = 1
        /\ heap[pix_deskewed] = 1
\* C9 (amended): pixDeskew returns either a fresh handle with its own single
\* reference, or a clone that is the source structure with two references;
\* releasing the source never frees what the result names, nothing is freed
\* twice, and after both releases no structure is left.
C9_FreshOrCloneReleasedSafely ==
    /\ (pc = "write" /\ pix_source # NULL) =>
          \/ /\ pix_deskewed # pix_source
             /\ heap[pix_source] = 1 /\ heap[pix_deskewed] = 1
          \/ /\ pix_deskewed = pix_source
             /\ heap[pix_source] = 2
    /\ ~doubleFree
    /\ pc = "destroy_deskewed" =>
          /\ pix_deskewed # NULL
          /\ heap[pix_deskewed] = 1
          /\ pix_deskewed \notin freed
    /\ pc = "end" => \A h \in Handles : heap[h] = 0
C9_Witness ==
    /\ pc = "destroy_deskewed"
    /\ freed = {}
    /\ destroyed["pix_source"] = 1

\* C10: with or without the -r/--dpi flag, an accepted command line reaches
\* pixDeskew after a successful read with a reduction factor in {0, 1}, and
\* no run ends with an exit code outside 0, 2, 3 and 5.
C10_FactorAlwaysDefined ==
    /\ \A i \in DeskewCalls : calls[i].rf \in {0, 1}
    /\ pc \in {"deskew", "write"} => reduction_factor \in {0, 1}
    /\ (ReadOk /\ Exited) => Called("pixDeskew")
    /\ Exited => exitCode \in {EXIT_OK, EXIT_INPUT, EXIT_DEPENDENCY, EXIT_ENCODE}
C10_Witness ==
    /\ ~HasFlag(argv)
    /\ args.dpi = None
    /\ \E i \in DeskewCalls : calls[i].rf = 1
====
